---- MODULE Spec2Model ----
(***************************************************************************)
(* Model of nagare/services/reloader.py: the directory and file watch      *)
(* registries (_DirsObserver, _FilesObserver and their deferred wrappers), *)
(* the predicate / default-action pipeline (ObserverBase.execute_callback, *)
(* Reloader.default_file_action), the process supervisor                   *)
(* (Reloader.monitor) and the livereload hub (connect / receive /          *)
(* broadcast / close).                                                     *)
(*                                                                         *)
(* Paths are sequences of one-character strings, so that the string        *)
(* operations of the code (startswith, slicing, len, dirname) are computed *)
(* as the code computes them.                                              *)
(***************************************************************************)
EXTENDS Integers, Sequences, FiniteSets, TLC

VARIABLES
    disk,            \* the filesystem: regular file path -> mtime, or Absent
    reload,          \* Reloader.reload: "lambda" (constructor), "action" or "None"
    version,         \* Reloader.version
    dirs_observer,   \* DirsObserver.dirs_observer: "None" or "started"
    watched_dirs,    \* DirsObserver.watched_dirs (registrations deferred to start)
    actions,         \* _DirsObserver._actions
    files_observer,  \* FilesObserver.files_observer: "None" or "started"
    watched_files,   \* FilesObserver.watched_files
    files_mtime_check, \* _FilesObserver._files_mtime_check (configuration)
    file_infos,      \* _FilesObserver._dirs, flattened: filename -> [mtime, action, kw]
    websockets,      \* Reloader.websockets
    conn,            \* per connection: transport state and bound handlers
    mon,             \* Reloader.monitor: locals, program counter, children
    iter,            \* a broadcast running beside other threads: its set iterator
    http,            \* Reloader.live (configuration) and Reloader.head
    last             \* observation of the last handler run: its calls, in order

vars == <<disk, reload, version, dirs_observer, watched_dirs, actions,
          files_observer, watched_files, files_mtime_check, file_infos,
          websockets, conn, mon, iter, http, last>>

----------------------------------------------------------------------------
(* Bounds *)

\* registrations each registry defers before start
MaxPending == 2
\* largest modification time the filesystem takes
MaxMtime == 1
\* children the supervisor may spawn before the model stops spawning
MaxSpawn == 3
\* segments (text, closing head tag, closing body tag) a response body is made of
MaxSegments == 2

----------------------------------------------------------------------------
(* Strings and paths (os.path, posix flavour) *)

Sep == "/"

StartsWith(s, p) == Len(p) <= Len(s) /\ SubSeq(s, 1, Len(p)) = p

\* s[n:] with n counted from 0 as in Python
SliceFrom(s, n) == IF n >= Len(s) THEN <<>> ELSE SubSeq(s, n + 1, Len(s))

\* index of the last separator of p, 0 when there is none (str.rfind + 1)
LastSep(p) ==
    LET I == {i \in 1..Len(p) : p[i] = Sep}
    IN  IF I = {} THEN 0 ELSE CHOOSE i \in I : \A j \in I : j <= i

RECURSIVE RStripSep(_)
RStripSep(s) ==
    IF s # <<>> /\ s[Len(s)] = Sep THEN RStripSep(SubSeq(s, 1, Len(s) - 1)) ELSE s

\* posixpath.dirname: the head up to the last separator, trailing separators
\* stripped unless the head is made of separators only
DirName(p) ==
    LET head == SubSeq(p, 1, LastSep(p))
    IN  IF head # <<>> /\ RStripSep(head) # <<>> THEN RStripSep(head) ELSE head

\* posixpath.basename
BaseName(p) == SliceFrom(p, LastSep(p))

\* str.split('/')
RECURSIVE SplitSep(_)
SplitSep(s) ==
    LET I == {i \in 1..Len(s) : s[i] = Sep}
    IN  IF I = {} THEN <<s>>
        ELSE LET i == CHOOSE k \in I : \A j \in I : k <= j
             IN  <<SubSeq(s, 1, i - 1)>> \o SplitSep(SliceFrom(s, i))

\* the component loop of posixpath.normpath, for an absolute path: empty and
\* '.' components are dropped, '..' pops the previous component
RECURSIVE NormComps(_, _)
NormComps(comps, acc) ==
    IF comps = <<>> THEN acc
    ELSE LET c == Head(comps)
         IN  IF c = <<>> \/ c = <<".">> THEN NormComps(Tail(comps), acc)
             ELSE IF c = <<".", ".">>
                  THEN NormComps(Tail(comps),
                                 IF acc = <<>> THEN acc ELSE SubSeq(acc, 1, Len(acc) - 1))
                  ELSE NormComps(Tail(comps), Append(acc, c))

RECURSIVE JoinSep(_)
JoinSep(comps) ==
    IF comps = <<>> THEN <<>> ELSE <<Sep>> \o Head(comps) \o JoinSep(Tail(comps))

\* os.path.abspath of an absolute path: normpath
AbsPath(p) ==
    LET comps == NormComps(SplitSep(p), <<>>)
    IN  IF comps = <<>> THEN <<Sep>> ELSE JoinSep(comps)

\* os.path.join(a, b) for a relative b and an a that does not end with a separator
PathJoin(a, b) == a \o <<Sep>> \o b

----------------------------------------------------------------------------
(* The filesystem the watches look at *)

pA    == <<"/", "a">>
pAB   == <<"/", "a", "/", "b">>
pABs  == <<"/", "a", "/", "b", "/">>
pABC  == <<"/", "a", "/", "b", "/", "c">>
pABx  == <<"/", "a", "/", "b", "x">>
pX    == <<"/", "x">>
fAF   == <<"/", "a", "/", "f">>
fABF  == <<"/", "a", "/", "b", "/", "f">>
fABCF == <<"/", "a", "/", "b", "/", "c", "/", "f">>
fABxF == <<"/", "a", "/", "b", "x", "/", "f">>
fAdF  == <<"/", "a", "/", ".", "/", "f">>
fAT   == <<"/", "a", "/", "t">>

\* the directories that exist (the tree is static), the regular files that may
ExistingDirs == {<<Sep>>, pA, pAB, pABC, pABx}
Files == {fAF, fABF}

Absent == -1

IsDir(p) == p \in ExistingDirs
IsFile(p) == p \in DOMAIN disk /\ disk[p] # Absent
StatMtime(p) == disk[p]

----------------------------------------------------------------------------
(* Inputs *)

None == "None"

\* watchdog event types
EventTypes == {"created", "modified", "deleted", "moved"}

\* a filesystem event as the backend delivers it; dest_path is empty unless
\* the event is a move
Event(src, dest, isdir, type) ==
    [src_path |-> src, dest_path |-> dest, is_directory |-> isdir, event_type |-> type]

NoEvent == Event(<<>>, <<>>, FALSE, "none")

\* events the directory backend delivers: files directly in a root, a file in
\* a subdirectory, directories themselves
DirEvents ==
    {Event(p, <<>>, FALSE, t) : p \in {fAF, fABF, fABCF, fABxF}, t \in {"modified", "deleted"}}
    \cup {Event(p, <<>>, TRUE, "created") : p \in {pAB, pABC}}

\* what a predicate call returns
PredResults == {"True", "False", None}

\* what a caller registers with a path: no predicate with options k1, or the
\* predicate p1 with options k2
Registrations == {[action |-> None, kw |-> "k1"], [action |-> "p1", kw |-> "k2"]}

\* what the predicate of a rule may return; without a predicate the stand-in
\* lambda of execute_callback returns True
ResultsOf(action) == IF action = None THEN {"True"} ELSE PredResults

\* directory names a caller registers: three roots nested in one another, one
\* of them also spelled with a trailing separator, and a missing directory
DirInputs == {pA, pAB, pABs, pABC, pX}

\* connections of the push transport; the registries are checked with one
Conns == {"w1", "w2"}
WatchConns == {"w1"}

\* Reloader.start: random.randint(VersionMin, VersionMax); the model draws from
\* the two ends of the range
VersionMin == 10000000
VersionMax == 99999999
VersionChoices == {VersionMin, VersionMax}

----------------------------------------------------------------------------
(* Outcome of a handler: the external calls it made, in order, and the
   exception it left with ("none": it returned) *)

Outcome(calls, raised) == [calls |-> calls, raised |-> raised]

\* run b after a unless a raised
Then(a, b) ==
    IF a.raised # "none" THEN a ELSE Outcome(a.calls \o b.calls, b.raised)

Nothing == Outcome(<<>>, "none")

----------------------------------------------------------------------------
(* Livereload hub: broadcast *)

ReloadCommand(path) == [command |-> "reload", path |-> path]
AlertCommand(message) == [command |-> "alert", message |-> message]
HelloResponse ==
    [command |-> "hello",
     protocols |-> <<"http://livereload.com/protocols/official-7">>,
     serverName |-> "nagare-livereload"]

\* websocket.send(message): raises when the transport is dead
Send(w, message) ==
    IF conn[w] = "dead" THEN Outcome(<< <<"send_failed", w, message>> >>, "SendError")
    ELSE Outcome(<< <<"send", w, message>> >>, "none")

\* the orders in which `for websocket in self.websockets` may enumerate the set
Orders(S) ==
    {o \in [1..Cardinality(S) -> S] : \A i, j \in 1..Cardinality(S) : i # j => o[i] # o[j]}

RECURSIVE SendAll(_, _)
SendAll(order, message) ==
    IF order = <<>> THEN Nothing
    ELSE Then(Send(Head(order), message), SendAll(Tail(order), message))

\* Reloader.broadcast_livereload, iterating the set in the given order
BroadcastLivereload(order, command) ==
    Then(Outcome(<< <<"broadcast_livereload", command>> >>, "none"), SendAll(order, command))

ReloadAsset(order, path) == BroadcastLivereload(order, ReloadCommand(path))

\* Reloader.reload_document (entered: the "reload_document" mark)
ReloadDocument(order) ==
    Then(Outcome(<< <<"reload_document">> >>, "none"), ReloadAsset(order, <<>>))

----------------------------------------------------------------------------
(* The default action and the predicate pipeline *)

\* mutant: the default action without the event type test
DefaultFileActionAnyType(event, path, only_on_modified, hook_ok) ==
    IF reload # None
    THEN IF hook_ok
         THEN Outcome(<< <<"handle_reload">>, <<"reload", path>> >>, "none")
         ELSE Outcome(<< <<"handle_reload">> >>, "HookError")
    ELSE Nothing

\* mutant: the reload callback is called first, the hook after it
DefaultFileActionHookLast(event, path, only_on_modified, hook_ok) ==
    IF reload # None
       /\ (~only_on_modified \/ event.event_type \in {"created", "modified", "moved"})
    THEN IF hook_ok
         THEN Outcome(<< <<"reload", path>>, <<"handle_reload">> >>, "none")
         ELSE Outcome(<< <<"reload", path>>, <<"handle_reload">> >>, "HookError")
    ELSE Nothing

\* Reloader.default_file_action
DefaultFileAction(event, path, only_on_modified, hook_ok) ==
    IF reload # None
       /\ (~only_on_modified \/ event.event_type \in {"created", "modified", "moved"})
    THEN IF hook_ok
         THEN Outcome(<< <<"handle_reload">>, <<"reload", path>> >>, "none")
         ELSE Outcome(<< <<"handle_reload">> >>, "HookError")
    ELSE Nothing

\* Reloader.default_dir_action: only_on_modified is received and not passed on
DefaultDirAction(event, dirname, path, only_on_modified, hook_ok) ==
    DefaultFileAction(event, IF path # <<>> THEN PathJoin(dirname, path) ELSE dirname,
                      FALSE, hook_ok)

\* the observer's default action: args is <<dirname, path>> for the directory
\* observer, <<filename>> for the file observer
DefaultAction(kind, event, args, only_on_modified, hook_ok) ==
    IF kind = "dir"
    THEN DefaultDirAction(event, args[1], args[2], only_on_modified, hook_ok)
    ELSE DefaultFileAction(event, args[1], only_on_modified, hook_ok)

\* mutant: any result other than None fires the default action
ExecuteCallbackTwoWay(kind, action, event, args, kw, res, hook_ok, order) ==
    LET called == IF action = None THEN Outcome(<< <<"execute_callback">> >>, "none")
                  ELSE Outcome(<< <<"execute_callback">>,
                                  <<"predicate", action, args, kw, res>> >>, "none")
        to_restart == IF action = None THEN "True" ELSE res
    IN  IF to_restart # None
        THEN Then(called, DefaultAction(kind, event, args, action = None, hook_ok))
        ELSE called

\* mutant: None notifies the clients and False does nothing
ExecuteCallbackSwapped(kind, action, event, args, kw, res, hook_ok, order) ==
    LET called == IF action = None THEN Outcome(<< <<"execute_callback">> >>, "none")
                  ELSE Outcome(<< <<"execute_callback">>,
                                  <<"predicate", action, args, kw, res>> >>, "none")
        to_restart == IF action = None THEN "True" ELSE res
    IN  IF to_restart # "False"
        THEN IF to_restart = "True"
             THEN Then(called, DefaultAction(kind, event, args, action = None, hook_ok))
             ELSE Then(called, ReloadDocument(order))
        ELSE called

\* ObserverBase.execute_callback (entered: the "execute_callback" mark). res is
\* what the predicate returns when one is registered; without one the stand-in
\* lambda returns True.
ExecuteCallback(kind, action, event, args, kw, res, hook_ok, order) ==
    LET called == IF action = None THEN Outcome(<< <<"execute_callback">> >>, "none")
                  ELSE Outcome(<< <<"execute_callback">>,
                                  <<"predicate", action, args, kw, res>> >>, "none")
        to_restart == IF action = None THEN "True" ELSE res
    IN  IF to_restart # None
        THEN IF to_restart = "True"
             THEN Then(called, DefaultAction(kind, event, args, action = None, hook_ok))
             ELSE Then(called, ReloadDocument(order))
        ELSE called

----------------------------------------------------------------------------
(* Directory registry: _DirsObserver and its deferring wrapper DirsObserver *)

DirRule(dirname, recursive, action, kw) ==
    [dirname |-> dirname, recursive |-> recursive, action |-> action, kw |-> kw]

\* mutant: the sort without reverse=True, shortest first
InsertByLenAsc(sorted, x) ==
    LET n == Cardinality({i \in 1..Len(sorted) :
                            Len(sorted[i].dirname) <= Len(x.dirname)})
    IN  SubSeq(sorted, 1, n) \o <<x>> \o SubSeq(sorted, n + 1, Len(sorted))

\* list.sort(key=lambda a: len(a[0]), reverse=True): stable, longest first
InsertByLenDesc(sorted, x) ==
    LET n == Cardinality({i \in 1..Len(sorted) :
                            Len(sorted[i].dirname) >= Len(x.dirname)})
    IN  SubSeq(sorted, 1, n) \o <<x>> \o SubSeq(sorted, n + 1, Len(sorted))

RECURSIVE SortByLenDesc(_)
SortByLenDesc(s) ==
    IF s = <<>> THEN <<>>
    ELSE InsertByLenDesc(SortByLenDesc(SubSeq(s, 1, Len(s) - 1)), s[Len(s)])

Roots(acts) == {acts[i].dirname : i \in 1..Len(acts)}

\* mutant: a root registered again replaces its rule
DirsScheduledReplacing(acts, dirname, action, recursive, kw) ==
    LET d == AbsPath(dirname)
    IN  IF ~IsDir(d) THEN [actions |-> acts, ret |-> FALSE]
        ELSE [actions |-> SortByLenDesc(Append(SelectSeq(acts, LAMBDA a : a.dirname # d),
                                               DirRule(d, recursive, action, kw))),
              ret |-> TRUE]

\* _DirsObserver.schedule: the rule list after the call, and what it returns
DirsScheduled(acts, dirname, action, recursive, kw) ==
    LET d == AbsPath(dirname)
    IN  IF ~IsDir(d) THEN [actions |-> acts, ret |-> FALSE]
        ELSE IF d \notin Roots(acts)
             THEN [actions |-> SortByLenDesc(Append(acts, DirRule(d, recursive, action, kw))),
                   ret |-> TRUE]
             ELSE [actions |-> acts, ret |-> TRUE]

\* DirsObserver.start: the deferred registrations, scheduled in order
RECURSIVE DirsScheduleAll(_, _)
DirsScheduleAll(acts, pending) ==
    IF pending = <<>> THEN acts
    ELSE LET w == Head(pending)
         IN  DirsScheduleAll(
                 DirsScheduled(acts, w.dirname, w.action, w.recursive, w.kw).actions,
                 Tail(pending))

\* the test of _DirsObserver.dispatch for one rule
DirMatches(rule, event) ==
    LET evt_path     == event.src_path
        evt_dirname  == IF event.is_directory THEN evt_path ELSE DirName(evt_path)
        evt_dirname2 == evt_dirname \o <<Sep>>
        dirname2     == rule.dirname \o <<Sep>>
    IN  (rule.recursive /\ StartsWith(evt_dirname2, dirname2))
        \/ evt_dirname = rule.dirname

\* the rule the loop of _DirsObserver.dispatch stops at: the first that
\* matches, 0 when none does
DirRouted(acts, event) ==
    LET M == {i \in 1..Len(acts) : DirMatches(acts[i], event)}
    IN  IF M = {} THEN 0 ELSE CHOOSE i \in M : \A j \in M : i <= j

\* _DirsObserver.dispatch
DirsDispatched(acts, event, res, hook_ok, order) ==
    LET i == DirRouted(acts, event)
    IN  IF i = 0 THEN Nothing
        ELSE LET rule == acts[i]
                 path == SliceFrom(event.src_path, Len(rule.dirname) + 1)
             IN  ExecuteCallback("dir", rule.action, event, <<rule.dirname, path>>,
                                 rule.kw, res, hook_ok, order)

\* what the last handler did
Last(op, event, routed, out, ret) ==
    [op |-> op, event |-> event, routed |-> routed,
     calls |-> out.calls, raised |-> out.raised, ret |-> ret]

\* the observer's schedule was called with a path, a predicate and options,
\* and returned ret to the deferring wrapper, which returns nothing to
\* watch_dir / watch_file
Scheduling(path, registration, ret) ==
    Outcome(<< <<"schedule", path, IF ret THEN "True" ELSE "False", registration>> >>, "none")

\* Reloader.watch_dir -> DirsObserver.schedule: deferred until start, then
\* passed to the observer; the result of the observer is dropped
WatchDir(dirname, action, recursive, kw) ==
    /\ IF dirs_observer = None
       THEN /\ Len(watched_dirs) < MaxPending
            /\ watched_dirs' = Append(watched_dirs, DirRule(dirname, recursive, action, kw))
            /\ UNCHANGED actions
       ELSE /\ actions' = DirsScheduled(actions, dirname, action, recursive, kw).actions
            /\ UNCHANGED watched_dirs
    /\ last' = Last("watch_dir", NoEvent, <<>>,
                    IF dirs_observer = None THEN Nothing
                    ELSE Scheduling(dirname, DirRule(dirname, recursive, action, kw),
                                    DirsScheduled(actions, dirname, action, recursive, kw).ret),
                    None)
    /\ UNCHANGED <<http, iter, disk, reload, version, dirs_observer, files_observer, watched_files,
                   files_mtime_check, file_infos, websockets, conn, mon>>

\* the directory observer's thread delivers an event
DirDispatch(event, res, hook_ok, order) ==
    /\ dirs_observer = "started"
    /\ LET i == DirRouted(actions, event)
       IN  last' = Last("dir_dispatch", event,
                        IF i = 0 THEN <<>> ELSE actions[i].dirname,
                        DirsDispatched(actions, event, res, hook_ok, order), None)
    /\ UNCHANGED <<http, iter, disk, reload, version, dirs_observer, watched_dirs, actions,
                   files_observer, watched_files, files_mtime_check, file_infos,
                   websockets, conn, mon>>

----------------------------------------------------------------------------
(* File registry: _FilesObserver and its deferring wrapper FilesObserver *)

\* file names a caller registers: two files, one of them also spelled with a
\* '.' component
FileInputs == {fAF, fAdF, fABF}

\* events the file backend delivers: changes of a file, a move onto it and
\* away from it, a change of the other file, a directory event
FileEvents ==
    {Event(fAF, <<>>, FALSE, t) : t \in {"created", "modified", "deleted"}}
    \cup {Event(fAT, fAF, FALSE, "moved"), Event(fAF, fAT, FALSE, "moved")}
    \cup {Event(fABF, <<>>, FALSE, "modified"), Event(pA, <<>>, TRUE, "modified")}

FileInfos(mtime, action, kw) == [mtime |-> mtime, action |-> action, kw |-> kw]

\* the key of self._dirs[dirname][basename]
FileKey(filename) == <<DirName(filename), BaseName(filename)>>

\* f with key k bound to v (dict item assignment)
DictSet(f, k, v) == [x \in DOMAIN f \cup {k} |-> IF x = k THEN v ELSE f[x]]

\* mutant: a file registered again keeps its entry
FilesScheduledKeeping(infos, filename, action, kw) ==
    LET f == AbsPath(filename)
    IN  IF ~IsFile(f) THEN [infos |-> infos, ret |-> FALSE]
        ELSE IF FileKey(f) \in DOMAIN infos THEN [infos |-> infos, ret |-> TRUE]
        ELSE [infos |-> DictSet(infos, FileKey(f), FileInfos(StatMtime(f), action, kw)),
              ret |-> TRUE]

\* _FilesObserver.schedule: the registry after the call, and what it returns
FilesScheduled(infos, filename, action, kw) ==
    LET f == AbsPath(filename)
    IN  IF ~IsFile(f) THEN [infos |-> infos, ret |-> FALSE]
        ELSE [infos |-> DictSet(infos, FileKey(f), FileInfos(StatMtime(f), action, kw)),
              ret |-> TRUE]

RECURSIVE FilesScheduleAll(_, _)
FilesScheduleAll(infos, pending) ==
    IF pending = <<>> THEN infos
    ELSE LET w == Head(pending)
         IN  FilesScheduleAll(FilesScheduled(infos, w.filename, w.action, w.kw).infos,
                              Tail(pending))

\* getattr(event, 'dest_path', None) or event.src_path
EventFilename(event) == IF event.dest_path # <<>> THEN event.dest_path ELSE event.src_path

\* the rule _FilesObserver.dispatch looks up: its key, or <<>> when the event
\* is a directory event or no file is registered under that name
FileRouted(infos, event) ==
    IF event.is_directory THEN <<>>
    ELSE IF FileKey(EventFilename(event)) \in DOMAIN infos
         THEN FileKey(EventFilename(event)) ELSE <<>>

\* mtime2 of _FilesObserver.dispatch
Mtime2(filename, mtime1) == IF IsFile(filename) THEN StatMtime(filename) ELSE mtime1 + 1

\* mutant: the debounce test with >= for >
PassesDebounceOrEqual(mtime1, mtime2) == ~files_mtime_check \/ mtime2 >= mtime1

\* the debounce test of _FilesObserver.dispatch
PassesDebounce(mtime1, mtime2) == ~files_mtime_check \/ mtime2 > mtime1

\* mutant: the stored mtime overwritten whatever the event type
StoredAfterAnyType(event, mtime1, mtime2) == mtime2

\* the stored mtime after an event that passed the debounce
StoredAfter(event, mtime1, mtime2) == IF event.event_type # "deleted" THEN mtime2 ELSE mtime1

\* _FilesObserver.dispatch: the registry after the event and what was called
FilesDispatched(infos, event, res, hook_ok, order) ==
    LET k == FileRouted(infos, event)
    IN  IF k = <<>> THEN [infos |-> infos, out |-> Nothing]
        ELSE LET filename == EventFilename(event)
                 mtime1   == infos[k].mtime
                 mtime2   == Mtime2(filename, mtime1)
             IN  IF PassesDebounce(mtime1, mtime2)
                 THEN [infos |-> [infos EXCEPT ![k].mtime = StoredAfter(event, mtime1, mtime2)],
                       out |-> ExecuteCallback("file", infos[k].action, event, <<filename>>,
                                               infos[k].kw, res, hook_ok, order)]
                 ELSE [infos |-> infos, out |-> Nothing]

\* Reloader.watch_file -> FilesObserver.schedule
WatchFile(filename, action, kw) ==
    /\ IF files_observer = None
       THEN /\ Len(watched_files) < MaxPending
            /\ watched_files' = Append(watched_files,
                                       [filename |-> filename, action |-> action, kw |-> kw])
            /\ UNCHANGED file_infos
       ELSE /\ file_infos' = FilesScheduled(file_infos, filename, action, kw).infos
            /\ UNCHANGED watched_files
    /\ last' = Last("watch_file", NoEvent, <<>>,
                    IF files_observer = None THEN Nothing
                    ELSE Scheduling(filename, FileInfos(None, action, kw),
                                    FilesScheduled(file_infos, filename, action, kw).ret),
                    None)
    /\ UNCHANGED <<http, iter, disk, reload, version, dirs_observer, watched_dirs, actions,
                   files_observer, files_mtime_check, websockets, conn, mon>>

\* the file observer's thread delivers an event
FileDispatch(event, res, hook_ok, order) ==
    /\ files_observer = "started"
    /\ LET r == FilesDispatched(file_infos, event, res, hook_ok, order)
           k == FileRouted(file_infos, event)
       IN  /\ \A x \in DOMAIN r.infos : r.infos[x].mtime <= MaxMtime + 1
           /\ file_infos' = r.infos
           /\ last' = Last("file_dispatch", event, k, r.out, None)
    /\ UNCHANGED <<http, iter, disk, reload, version, dirs_observer, watched_dirs, actions,
                   files_observer, watched_files, files_mtime_check, websockets, conn, mon>>

\* one filesystem event, delivered by each of the two observers to its own
\* dispatch: the Reloader builds the two registries side by side and nothing
\* relates them.  The calls of the directory registry are listed first; the
\* hook succeeds.
FsEvent(event, dres, fres, order) ==
    /\ dirs_observer = "started" /\ files_observer = "started"
    /\ LET d == DirsDispatched(actions, event, dres, TRUE, order)
           r == FilesDispatched(file_infos, event, fres, TRUE, order)
       IN  /\ \A x \in DOMAIN r.infos : r.infos[x].mtime <= MaxMtime + 1
           /\ file_infos' = r.infos
           /\ last' = Last("fs_event", event, <<>>,
                           Outcome(d.calls \o r.out.calls,
                                   IF d.raised # "none" THEN d.raised ELSE r.out.raised),
                           None)
    /\ UNCHANGED <<http, iter, disk, reload, version, dirs_observer, watched_dirs, actions,
                   files_observer, watched_files, files_mtime_check, websockets, conn, mon>>

\* the world changes a file: a write sets its mtime, a removal makes it absent
FsChange(f, m) ==
    /\ disk[f] # m
    /\ disk' = [disk EXCEPT ![f] = m]
    /\ last' = Last("fs_change", NoEvent, <<>>, Nothing, None)
    /\ UNCHANGED <<http, iter, reload, version, dirs_observer, watched_dirs, actions, files_observer,
                   watched_files, files_mtime_check, file_infos, websockets, conn, mon>>

----------------------------------------------------------------------------
(* Reloader.start and the hub's connections *)

\* Reloader.start: the reload action is kept, both registries are created and
\* take the deferred registrations, the run version is minted
StartEffects(reload_action, v) ==
    /\ dirs_observer = None /\ files_observer = None
    /\ reload' = reload_action
    /\ dirs_observer' = "started"
    /\ actions' = DirsScheduleAll(<<>>, watched_dirs)
    /\ watched_dirs' = <<>>
    /\ files_observer' = "started"
    /\ file_infos' = FilesScheduleAll(<<>>, watched_files)
    /\ watched_files' = <<>>
    /\ version' = v
    /\ UNCHANGED <<http, iter, disk, files_mtime_check, websockets, conn>>

\* Reloader.start called on its own
Start(reload_action, v) ==
    /\ StartEffects(reload_action, v)
    /\ last' = Last("start", NoEvent, <<>>, Nothing, None)
    /\ UNCHANGED mon

\* Reloader.connect_livereload, for a request on the hub's own path with a
\* websocket: the handlers are bound and the connection joins the set
ConnectLivereload(w) ==
    /\ conn[w] = "new"
    /\ conn' = [conn EXCEPT ![w] = "open"]
    /\ websockets' = websockets \cup {w}
    /\ last' = Last("connect", NoEvent, <<>>, Nothing, None)
    /\ UNCHANGED <<http, iter, disk, reload, version, dirs_observer, watched_dirs, actions,
                   files_observer, watched_files, files_mtime_check, file_infos, mon>>

\* the transport of an open connection dies; its close callback has not run yet
TransportDies(w) ==
    /\ conn[w] = "open"
    /\ conn' = [conn EXCEPT ![w] = "dead"]
    /\ last' = Last("transport_dies", NoEvent, <<>>, Nothing, None)
    /\ UNCHANGED <<http, iter, disk, reload, version, dirs_observer, watched_dirs, actions,
                   files_observer, watched_files, files_mtime_check, file_infos,
                   websockets, mon>>

----------------------------------------------------------------------------
(* Reloader.monitor: the child branch and the supervising loop of the parent *)

\* the exit code that asks for a respawn
RestartCode == 3

\* what a child's wait() may return
ExitCodes == {0, 1, 2, RestartCode}

\* str(n)
Str(n) == <<"str", n>>

\* os.environ at launch: without the marker, or with it (a supervised child)
Environs == {<<>>, [k \in {"nagare.reload"} |-> Str(1)]}

\* mutant: the marker is never seen
ActivatedNever(environ) == FALSE

\* Reloader.activated
Activated(environ) == "nagare.reload" \in DOMAIN environ

\* mutant: the loop goes on after any failure of the child
LoopContinuesNonZero(exit_code) == exit_code # 0

\* the test of the while loop
LoopContinues(exit_code) == exit_code = RestartCode

\* the exit code the except clause sets on KeyboardInterrupt
InterruptCode == 1

\* no process handle (proc = None); a handle is the child's index
NoProc == 0

\* what monitor left with: nothing yet, a returned code, an exception
NoRet == <<"none">>
Returned(code) == <<"return", code>>
Raised(exception) == <<"raise", exception>>

\* mutant: the finally clause terminates nothing
FinallyNothing(proc, children) == children

\* the finally clause: a process handle still held is terminated
Finally(proc, children) ==
    IF proc # NoProc THEN [children EXCEPT ![proc].status = "terminated"] ELSE children

\* mutant: the counter is not incremented
NextReloadSame(nb_reload) == nb_reload

\* nb_reload += 1
NextReload(nb_reload) == nb_reload + 1

\* the command line: sys.argv[0], with '.exe' appended when that file exists
Nagare(exe_exists) == IF exe_exists THEN "nagare.exe" ELSE "nagare"

MonInit ==
    [pc |-> "idle", environ |-> <<>>, nb_reload |-> 0, exit_code |-> 0,
     args |-> <<>>, proc |-> NoProc, children |-> <<>>, reload_action |-> <<>>,
     ret |-> NoRet]

\* monitor() in a supervised child: start, return 0
MonitorChild(environ, reload_action, v) ==
    /\ mon.pc = "idle"
    /\ Activated(environ)
    /\ StartEffects(reload_action, v)
    /\ mon' = [mon EXCEPT !.pc = "returned", !.environ = environ,
                          !.reload_action = <<reload_action>>, !.ret = Returned(0)]
    /\ last' = Last("monitor", NoEvent, <<>>, Nothing, None)

\* monitor() in the parent: the locals are set and the loop is reached
MonitorParent(environ) ==
    /\ mon.pc = "idle"
    /\ ~Activated(environ)
    /\ mon' = [mon EXCEPT !.pc = "loop", !.environ = environ,
                          !.nb_reload = 0, !.exit_code = RestartCode]
    /\ last' = Last("monitor", NoEvent, <<>>, Nothing, None)
    /\ UNCHANGED <<http, iter, disk, reload, version, dirs_observer, watched_dirs, actions,
                   files_observer, watched_files, files_mtime_check, file_infos,
                   websockets, conn>>

\* one turn of the loop up to the wait: the counter, the command line, the
\* environment copy with the counter, Popen
Spawn(exe_exists) ==
    /\ mon.pc = "loop"
    /\ LoopContinues(mon.exit_code)
    /\ mon.nb_reload < MaxSpawn
    /\ LET n == NextReload(mon.nb_reload)
           child == [environ |-> DictSet(mon.environ, "nagare.reload", Str(n)),
                     status |-> "running", code |-> <<>>]
       IN  mon' = [mon EXCEPT !.pc = "waiting", !.nb_reload = n,
                              !.args = <<"python", Nagare(exe_exists)>>,
                              !.children = Append(@, child),
                              !.proc = Len(mon.children) + 1]
    /\ last' = Last("spawn", NoEvent, <<>>, Nothing, None)
    /\ UNCHANGED <<http, iter, disk, reload, version, dirs_observer, watched_dirs, actions,
                   files_observer, watched_files, files_mtime_check, file_infos,
                   websockets, conn>>

\* Popen raises: no child, the finally clause finds proc None, the exception
\* leaves monitor
SpawnFails(exe_exists) ==
    /\ mon.pc = "loop"
    /\ LoopContinues(mon.exit_code)
    /\ mon.nb_reload < MaxSpawn
    /\ mon' = [mon EXCEPT !.pc = "raised", !.nb_reload = @ + 1, !.proc = NoProc,
                          !.args = <<"python", Nagare(exe_exists)>>,
                          !.children = Finally(NoProc, @), !.ret = Raised("OSError")]
    /\ last' = Last("spawn_fails", NoEvent, <<>>, Nothing, None)
    /\ UNCHANGED <<http, iter, disk, reload, version, dirs_observer, watched_dirs, actions,
                   files_observer, watched_files, files_mtime_check, file_infos,
                   websockets, conn>>

\* the child exits and wait() returns its code; proc is dropped, the finally
\* clause has nothing to terminate
ChildExits(code) ==
    /\ mon.pc = "waiting"
    /\ mon' = [mon EXCEPT !.pc = "loop", !.exit_code = code, !.proc = NoProc,
                          !.children = Finally(NoProc,
                              [@ EXCEPT ![mon.proc].status = "exited",
                                        ![mon.proc].code = <<code>>])]
    /\ last' = Last("child_exits", NoEvent, <<>>, Nothing, None)
    /\ UNCHANGED <<http, iter, disk, reload, version, dirs_observer, watched_dirs, actions,
                   files_observer, watched_files, files_mtime_check, file_infos,
                   websockets, conn>>

\* KeyboardInterrupt while waiting: the except clause sets the exit code, the
\* finally clause terminates the child whose handle is still held
Interrupt ==
    /\ mon.pc = "waiting"
    /\ mon' = [mon EXCEPT !.pc = "loop", !.exit_code = InterruptCode,
                          !.children = Finally(mon.proc, @)]
    /\ last' = Last("interrupt", NoEvent, <<>>, Nothing, None)
    /\ UNCHANGED <<http, iter, disk, reload, version, dirs_observer, watched_dirs, actions,
                   files_observer, watched_files, files_mtime_check, file_infos,
                   websockets, conn>>

\* the loop test fails: return exit_code
MonitorReturn ==
    /\ mon.pc = "loop"
    /\ ~LoopContinues(mon.exit_code)
    /\ mon' = [mon EXCEPT !.pc = "returned", !.ret = Returned(mon.exit_code)]
    /\ last' = Last("return", NoEvent, <<>>, Nothing, None)
    /\ UNCHANGED <<http, iter, disk, reload, version, dirs_observer, watched_dirs, actions,
                   files_observer, watched_files, files_mtime_check, file_infos,
                   websockets, conn>>

----------------------------------------------------------------------------
(* Livereload hub: messages received from a client, and close *)

\* a JSON integer; a JSON string of digits is Str(n)
Num(n) == <<"int", n>>

\* message.data: a JSON document (an object, or an array given by its items),
\* or text that is not JSON
Json(value) == [text |-> "json", type |-> "dict", value |-> value]
JsonList(items) == [text |-> "json", type |-> "list", value |-> [items |-> items]]
NotJson == [text |-> "garbage", type |-> "none", value |-> <<>>]

Hello(extver) == Json([command |-> "hello", extver |-> extver])

\* extver values a client may send
Extvers == {Num(0), Num(VersionMin), Num(VersionMax), Str(VersionMin)}

Messages ==
    {Hello(x) : x \in Extvers}
    \cup {Json([command |-> "hello"]), Json([command |-> "info"]),
          Json([command |-> "url"]), Json([extver |-> Num(0)]),
          JsonList(<<Num(1)>>), NotJson}

\* Python's != between a loaded JSON value and the integer run version
PyNe(value, v) == value # Num(v)

\* Reloader.receive_livereload
ReceiveLivereloadOut(w, message, order) ==
    LET got == Outcome(<< <<"received_message", w, message>> >>, "none")
        command == message.value
    IN  IF message.text # "json" THEN Then(got, Outcome(<<>>, "ValueError"))
        ELSE IF message.type # "dict" THEN Then(got, Outcome(<<>>, "TypeError"))
        ELSE IF "command" \notin DOMAIN command THEN Then(got, Outcome(<<>>, "KeyError"))
        ELSE IF command.command = "hello"
        THEN Then(got,
                  Then(Send(w, HelloResponse),
                       IF "extver" \notin DOMAIN command THEN Outcome(<<>>, "KeyError")
                       ELSE IF PyNe(command.extver, version) THEN ReloadDocument(order)
                       ELSE Nothing))
        ELSE got

\* a message arrives on a connection whose handler is bound
ReceiveLivereload(w, message, order) ==
    /\ conn[w] = "open"
    /\ last' = Last("receive", NoEvent, <<>>, ReceiveLivereloadOut(w, message, order), None)
    /\ UNCHANGED <<http, iter, disk, reload, version, dirs_observer, watched_dirs, actions,
                   files_observer, watched_files, files_mtime_check, file_infos,
                   websockets, conn, mon>>

\* Reloader.alert called by the application
Alert(message, order) ==
    /\ last' = Last("alert", NoEvent, <<>>,
                    BroadcastLivereload(order, AlertCommand(message)), None)
    /\ UNCHANGED <<http, iter, disk, reload, version, dirs_observer, watched_dirs, actions,
                   files_observer, watched_files, files_mtime_check, file_infos,
                   websockets, conn, mon>>

\* Reloader.reload_asset called by the application
ReloadAssetCalled(path, order) ==
    /\ last' = Last("reload_asset", NoEvent, <<>>, ReloadAsset(order, path), None)
    /\ UNCHANGED <<http, iter, disk, reload, version, dirs_observer, watched_dirs, actions,
                   files_observer, watched_files, files_mtime_check, file_infos,
                   websockets, conn, mon>>

\* Reloader.close_livereload: the handlers are unbound and the connection leaves
\* the set; called again, or for a websocket that never connected, the first
\* del finds no handler bound on the websocket
CloseLivereload(w) ==
    /\ IF conn[w] \in {"new", "closed"}
       THEN /\ last' = Last("close", NoEvent, <<>>,
                            Outcome(<< <<"closed", w>> >>, "AttributeError"), None)
            /\ UNCHANGED <<conn, websockets>>
       ELSE /\ conn' = [conn EXCEPT ![w] = "closed"]
            /\ websockets' = websockets \ {w}
            /\ last' = Last("close", NoEvent, <<>>,
                            Outcome(<< <<"closed", w>> >>, "none"), None)
    /\ UNCHANGED <<http, iter, disk, reload, version, dirs_observer, watched_dirs, actions,
                   files_observer, watched_files, files_mtime_check, file_infos, mon>>

----------------------------------------------------------------------------
(* Livereload hub: a broadcast interleaved with connect and close.  The
   observers dispatch on their own threads (or greenlets, where send yields),
   so `for websocket in self.websockets` can be overtaken between two sends. *)

NoCommand == [command |-> "none"]

\* no broadcast in progress
IterIdle ==
    [pc |-> "idle", command |-> NoCommand, size |-> 0, snapshot |-> {},
     views |-> {}, sent |-> <<>>, raised |-> "none"]

\* next() of the iterator of a set: RuntimeError when the set changed size
\* since the iterator was made; otherwise an entry not yet passed, in table
\* order, which is arbitrary; entries swapped meanwhile may also be missed
SetIterNext(it, S) ==
    IF Cardinality(S) # it.size THEN {<<"RuntimeError">>}
    ELSE LET rest == S \ {it.sent[i] : i \in 1..Len(it.sent)}
         IN  {<<"yield", w>> : w \in rest}
             \cup (IF rest = {} \/ S # it.snapshot THEN {<<"stop">>} ELSE {})

\* broadcast_livereload entered: json.dumps, then iter(self.websockets)
BroadcastBegin(command) ==
    /\ iter.pc = "idle"
    /\ iter' = [pc |-> "iterating", command |-> command, size |-> Cardinality(websockets),
                snapshot |-> websockets, views |-> {websockets}, sent |-> <<>>,
                raised |-> "none"]
    /\ last' = Last("broadcast_begin", NoEvent, <<>>, Nothing, None)
    /\ UNCHANGED <<http, disk, reload, version, dirs_observer, watched_dirs, actions,
                   files_observer, watched_files, files_mtime_check, file_infos,
                   websockets, conn, mon>>

\* one turn of the loop: next(), then websocket.send(message)
BroadcastTurn(step) ==
    /\ iter.pc = "iterating"
    /\ step \in SetIterNext(iter, websockets)
    /\ iter' = IF step[1] = "RuntimeError"
               THEN [iter EXCEPT !.pc = "raised", !.raised = "RuntimeError"]
               ELSE IF step[1] = "stop"
               THEN [iter EXCEPT !.pc = "done", !.views = @ \cup {websockets}]
               ELSE IF Send(step[2], iter.command).raised # "none"
               THEN [iter EXCEPT !.pc = "raised", !.raised = Send(step[2], iter.command).raised]
               ELSE [iter EXCEPT !.sent = Append(@, step[2]), !.views = @ \cup {websockets}]
    /\ last' = Last("broadcast_turn", NoEvent, <<>>, Nothing, None)
    /\ UNCHANGED <<http, disk, reload, version, dirs_observer, watched_dirs, actions,
                   files_observer, watched_files, files_mtime_check, file_infos,
                   websockets, conn, mon>>

\* the caller of the broadcast goes on
BroadcastEnd ==
    /\ iter.pc \in {"done", "raised"}
    /\ iter' = IterIdle
    /\ last' = Last("broadcast_end", NoEvent, <<>>, Nothing, None)
    /\ UNCHANGED <<http, disk, reload, version, dirs_observer, watched_dirs, actions,
                   files_observer, watched_files, files_mtime_check, file_infos,
                   websockets, conn, mon>>

----------------------------------------------------------------------------
(* The response augmenter: handle_start, reload_script, insert_reload_script,
   generate_response, handle_request.  Bytes are sequences of characters. *)

HeadTag == <<"<", "/", "h", "e", "a", "d", ">">>
BodyTag == <<"<", "/", "b", "o", "d", "y", ">">>
TextHtml == <<"t", "e", "x", "t", "/", "h", "t", "m", "l">>
TextHtmlUtf8 == TextHtml \o <<";", "u", "t", "f", "8">>
AppJson == <<"j", "s", "o", "n">>

\* str(n) for n >= 0, as characters
DigitChar == <<"0", "1", "2", "3", "4", "5", "6", "7", "8", "9">>
RECURSIVE Digits(_)
Digits(n) == IF n < 10 THEN <<DigitChar[n + 1]>> ELSE Digits(n \div 10) \o <<DigitChar[(n % 10) + 1]>>

\* bytes.partition(tag): the first occurrence of tag, 0 when there is none
Find(s, tag) ==
    LET at == {i \in 1..(Len(s) - Len(tag) + 1) : SubSeq(s, i, i + Len(tag) - 1) = tag}
    IN  IF at = {} THEN 0 ELSE CHOOSE i \in at : \A j \in at : i <= j
Partition(s, tag) ==
    LET i == Find(s, tag)
    IN  IF i = 0 THEN [before |-> s, tag |-> <<>>, after |-> <<>>]
        ELSE [before |-> SubSeq(s, 1, i - 1), tag |-> tag,
              after |-> SubSeq(s, i + Len(tag), Len(s))]

\* Reloader.insert_reload_script
InsertReloadScript(body, reload_script) ==
    LET h == Partition(body, HeadTag)
        p == IF h.tag = <<>> THEN Partition(body, BodyTag) ELSE h
    IN  IF p.tag # <<>> THEN p.before \o reload_script \o p.tag \o p.after ELSE body

\* the head handle_start builds: a script element whose URL ends with the
\* conversion %s, filled in by reload_script
ScriptHead == <<"<", "s", "?", "%s", ">">>

\* head % query: the one conversion of head replaced by the query; TypeError
\* ("not all arguments converted") when head holds no conversion
Format(head, query) ==
    LET i == Find(head, <<"%s">>)
    IN  IF i = 0 THEN [raised |-> "TypeError", bytes |-> <<>>]
        ELSE [raised |-> "none",
              bytes |-> SubSeq(head, 1, i - 1) \o query \o SubSeq(head, i + 1, Len(head))]

\* Reloader.reload_script: the query ends with extver=str(version)
ReloadScript == Format(http.head, <<"v", "=">> \o Digits(version))

\* webob MultiDict: the value of a key (<<>> when absent), and assignment,
\* which drops the key's entries and appends the new one
MultiDictGet(headers, key) ==
    LET at == {i \in 1..Len(headers) : headers[i][1] = key}
    IN  IF at = {} THEN <<>> ELSE headers[CHOOSE i \in at : \A j \in at : i >= j][2]
MultiDictSet(headers, key, value) ==
    SelectSeq(headers, LAMBDA h : h[1] # key) \o << <<key, value>> >>

\* Reloader.generate_response
GenerateResponse(status, headers, body) ==
    LET content_type == MultiDictGet(headers, "Content-Type")
    IN  IF content_type # <<>> /\ StartsWith(content_type, TextHtml)
        THEN IF ReloadScript.raised # "none" THEN Outcome(<<>>, ReloadScript.raised)
             ELSE LET body2 == InsertReloadScript(body, ReloadScript.bytes)
                  IN  Outcome(<< <<"start_response", status,
                                   MultiDictSet(headers, "Content-Length", Digits(Len(body2))),
                                   body2>> >>, "none")
        ELSE Outcome(<< <<"start_response", status, headers, body>> >>, "none")

\* Reloader.handle_request, the application down the chain answering with
\* status, headers and body through the start_response it is given
HandleRequestOut(has_start_response, is_xhr, status, headers, body) ==
    LET request == Outcome(<< <<"handle_request", has_start_response, is_xhr,
                                status, headers, body>> >>, "none")
    IN  IF ~has_start_response THEN request
        ELSE IF http.live /\ ~is_xhr
        THEN Then(request, GenerateResponse(status, headers, body))
        ELSE Then(request, Outcome(<< <<"start_response", status, headers, body>> >>, "none"))

HandleRequest(has_start_response, is_xhr, status, headers, body) ==
    /\ last' = Last("handle_request", NoEvent, <<>>,
                    HandleRequestOut(has_start_response, is_xhr, status, headers, body), None)
    /\ UNCHANGED <<disk, reload, version, dirs_observer, watched_dirs, actions,
                   files_observer, watched_files, files_mtime_check, file_infos,
                   websockets, conn, mon, iter, http>>

\* Reloader.handle_start: the head is built when live is set, a statics
\* service is given and the application has its URLs
HandleStart(has_statics, app_has_urls) ==
    /\ http' = IF http.live /\ has_statics /\ app_has_urls
               THEN [http EXCEPT !.head = ScriptHead] ELSE http
    /\ last' = Last("handle_start", NoEvent, <<>>, Nothing, None)
    /\ UNCHANGED <<disk, reload, version, dirs_observer, watched_dirs, actions,
                   files_observer, watched_files, files_mtime_check, file_infos,
                   websockets, conn, mon, iter>>

\* the bodies and the headers of the responses
Segments == {<<"x">>, HeadTag, BodyTag}
RECURSIVE BodiesOf(_)
BodiesOf(n) ==
    IF n = 0 THEN {<<>>}
    ELSE BodiesOf(n - 1) \cup {b \o g : b \in BodiesOf(n - 1), g \in Segments}
Bodies == BodiesOf(MaxSegments)
ResponseHeaders ==
    {<<>>,
     << <<"Content-Type", TextHtml>> >>,
     << <<"Content-Length", Digits(1)>>, <<"Content-Type", TextHtmlUtf8>>, <<"X-Other", <<"x">>>> >>,
     << <<"Content-Type", AppJson>>, <<"Content-Length", Digits(1)>> >>}

----------------------------------------------------------------------------
(* Specifications *)

\* the state Reloader.__init__ leaves; files_mtime_check is configuration
Init ==
    /\ disk = [f \in Files |-> 0]
    /\ reload = "lambda"
    /\ version = 0
    /\ dirs_observer = None
    /\ watched_dirs = <<>>
    /\ actions = <<>>
    /\ files_observer = None
    /\ watched_files = <<>>
    /\ files_mtime_check \in BOOLEAN
    /\ file_infos = <<>>
    /\ websockets = {}
    /\ conn = [w \in Conns |-> "new"]
    /\ mon = MonInit
    /\ iter = IterIdle
    /\ http \in {[live |-> l, head |-> <<>>] : l \in BOOLEAN}
    /\ last = Last("init", NoEvent, <<>>, Nothing, None)

\* Reloader built with live=True, the default
InitLive == Init /\ http.live

\* Reloader built with files_mtime_check=False, the default
InitNoMtimeCheck == InitLive /\ ~files_mtime_check

\* the configurations of live, files_mtime_check left at its default
InitAnyLive == Init /\ ~files_mtime_check

\* the registries are checked with the first version of the range
StartWatchStep == \E ra \in {"action", None} : Start(ra, VersionMin)

StartStep == \E ra \in {"action", None}, v \in VersionChoices : Start(ra, v)

WatchConnStep == \E w \in WatchConns : ConnectLivereload(w) \/ TransportDies(w)

WatchDirOver(D) ==
    \E d \in D, reg \in Registrations, r \in BOOLEAN : WatchDir(d, reg.action, r, reg.kw)

DirDispatchOver(E) ==
    \E e \in E, ok \in BOOLEAN, o \in Orders(websockets) :
        \E res \in (IF DirRouted(actions, e) = 0 THEN {"True"}
                    ELSE ResultsOf(actions[DirRouted(actions, e)].action)) :
            DirDispatch(e, res, ok, o)

WatchFileOver(F) ==
    \E f \in F, reg \in Registrations : WatchFile(f, reg.action, reg.kw)

FileDispatchOver(E) ==
    \E e \in E, ok \in BOOLEAN, o \in Orders(websockets) :
        \E res \in (IF FileRouted(file_infos, e) = <<>> THEN {"True"}
                    ELSE ResultsOf(file_infos[FileRouted(file_infos, e)].action)) :
            FileDispatch(e, res, ok, o)

\* the files the world changes
ChangingFiles == {fAF}

FsChangeStep == \E f \in ChangingFiles, m \in (0..MaxMtime) \cup {Absent} : FsChange(f, m)

\* the directory registry with the hub's connections, under the default
\* configuration (files_mtime_check = False)
DirsNext ==
    WatchDirOver(DirInputs) \/ StartWatchStep \/ DirDispatchOver(DirEvents) \/ WatchConnStep
SpecDirs == InitNoMtimeCheck /\ [][DirsNext]_vars

\* the file registry with the filesystem and the hub's connections
FilesNext ==
    \/ WatchFileOver(FileInputs) \/ StartWatchStep \/ FileDispatchOver(FileEvents)
    \/ FsChangeStep \/ WatchConnStep
SpecFiles == InitLive /\ [][FilesNext]_vars

\* one directory root and one file, with their events
WatchDirInputs == {pA}
WatchDirEvents ==
    {Event(fAF, <<>>, FALSE, t) : t \in {"modified", "deleted"}}
    \cup {Event(fABF, <<>>, FALSE, "created")}
WatchFileInputs == {fAF}
WatchFileEvents ==
    {Event(fAF, <<>>, FALSE, t) : t \in {"created", "modified", "deleted"}}
    \cup {Event(fAT, fAF, FALSE, "moved")}

\* the supervisor: watches are registered, then monitor runs as the child or
\* as the parent
MonitorChildStep ==
    \E e \in Environs, ra \in {"action", None}, v \in VersionChoices : MonitorChild(e, ra, v)
MonitorParentStep == \E e \in Environs : MonitorParent(e)
SpawnStep == \E x \in BOOLEAN : Spawn(x)
SpawnFailsStep == \E x \in BOOLEAN : SpawnFails(x)
ChildExitsStep == \E c \in ExitCodes : ChildExits(c)

MonitorNext ==
    \/ (mon.pc = "idle" /\ (WatchDirOver(WatchDirInputs) \/ WatchFileOver(WatchFileInputs)))
    \/ MonitorChildStep \/ MonitorParentStep
    \/ SpawnStep \/ SpawnFailsStep \/ ChildExitsStep \/ Interrupt \/ MonitorReturn
SpecMonitor == InitLive /\ [][MonitorNext]_vars

\* a running parent goes on with its loop
MonitorFairness == WF_vars(SpawnStep \/ SpawnFailsStep \/ MonitorReturn)
SpecMonitorFair == SpecMonitor /\ MonitorFairness

\* both registries side by side, on one directory root and one file
WatchNext ==
    \/ WatchDirOver(WatchDirInputs) \/ WatchFileOver(WatchFileInputs) \/ StartWatchStep
    \/ DirDispatchOver(WatchDirEvents) \/ FileDispatchOver(WatchFileEvents)
    \/ FsChangeStep \/ WatchConnStep
SpecWatch == InitLive /\ [][WatchNext]_vars

\* the hub on its own: two connections, messages from either
HubConnStep ==
    \E w \in Conns : ConnectLivereload(w) \/ TransportDies(w) \/ CloseLivereload(w)
ReceiveStep ==
    \E w \in Conns, message \in Messages, order \in Orders(websockets) :
        ReceiveLivereload(w, message, order)
BroadcastStep ==
    \E order \in Orders(websockets) :
        Alert("msg", order) \/ ReloadAssetCalled(fAF, order)
HubNext == StartStep \/ HubConnStep \/ ReceiveStep \/ BroadcastStep
SpecHub == InitNoMtimeCheck /\ [][HubNext]_vars

\* a broadcast on one thread, connect and close on another
BroadcastBeginStep ==
    BroadcastBegin(AlertCommand("msg")) \/ BroadcastBegin(ReloadCommand(<<>>))
BroadcastTurnStep ==
    \E step \in {<<"RuntimeError">>, <<"stop">>} \cup {<<"yield", w>> : w \in Conns} :
        BroadcastTurn(step)
ConcurrentConnStep == \E w \in Conns : ConnectLivereload(w) \/ CloseLivereload(w)
ConcurrentNext ==
    BroadcastBeginStep \/ BroadcastTurnStep \/ BroadcastEnd \/ ConcurrentConnStep
SpecConcurrent == InitNoMtimeCheck /\ [][ConcurrentNext]_vars

\* one event seen by both registries
FsEventStep ==
    \E e \in WatchFileEvents, o \in Orders(websockets) :
        \E dres \in (IF DirRouted(actions, e) = 0 THEN {"True"}
                     ELSE ResultsOf(actions[DirRouted(actions, e)].action)),
           fres \in (IF FileRouted(file_infos, e) = <<>> THEN {"True"}
                     ELSE ResultsOf(file_infos[FileRouted(file_infos, e)].action)) :
            FsEvent(e, dres, fres, o)
EventsNext ==
    \/ WatchDirOver(WatchDirInputs) \/ WatchFileOver(WatchFileInputs) \/ StartWatchStep
    \/ FsChangeStep \/ FsEventStep
SpecEvents == InitLive /\ [][EventsNext]_vars

\* registrations alone, before and after start: one directory root under two
\* spellings, one file, the file written and removed in between
RegisterDirInputs == {pAB, pABs}
RegisterNext ==
    \/ WatchDirOver(RegisterDirInputs) \/ WatchFileOver(WatchFileInputs)
    \/ StartWatchStep \/ FsChangeStep
SpecRegister == InitLive /\ [][RegisterNext]_vars

\* the augmenter on its own
HandleStartStep == \E s, u \in BOOLEAN : HandleStart(s, u)
HandleRequestStep ==
    \E sr, xhr \in BOOLEAN, h \in ResponseHeaders, b \in Bodies :
        HandleRequest(sr, xhr, "200 OK", h, b)
HttpNext == StartWatchStep \/ HandleStartStep \/ HandleRequestStep
SpecHttp == InitAnyLive /\ [][HttpNext]_vars

----------------------------------------------------------------------------
(* Directory routing *)

\* root deep lies strictly below root shallow
Below(deep, shallow) == deep # shallow /\ StartsWith(deep, shallow \o <<Sep>>)

\* the directory an event happened in
EventDir(event) == IF event.is_directory THEN event.src_path ELSE DirName(event.src_path)

\* the event's path lies under the root
Under(event, root) == StartsWith(event.src_path, root \o <<Sep>>)

RuleOf(root) == CHOOSE r \in {actions[i] : i \in 1..Len(actions)} : r.dirname = root

----------------------------------------------------------------------------
(* Reading the observation of a handler *)

Has(l, fn) == \E i \in 1..Len(l.calls) : l.calls[i][1] = fn

\* execute_callback ran: the watch's action was fired
Entered(l) == Has(l, "execute_callback")

\* the default action went through: the host reload hook was called
DefaultFired(l) == Has(l, "handle_reload")

\* the registered reload callback was called
ReloadCalled(l) == Has(l, "reload")

\* what the predicate returned, "none" when no predicate was called
PredReturned(l) ==
    IF Has(l, "predicate")
    THEN l.calls[CHOOSE i \in 1..Len(l.calls) : l.calls[i][1] = "predicate"][5]
    ELSE "none"

\* the send attempts of a handler, in order
SendsOf(l) == SelectSeq(l.calls, LAMBDA c : c[1] \in {"send", "send_failed"})

\* the connections a handler delivered the message to
Received(l, message) ==
    {l.calls[i][2] : i \in {j \in 1..Len(l.calls) :
                              l.calls[j][1] = "send" /\ l.calls[j][3] = message}}

IsDispatch(l) == l.op \in {"dir_dispatch", "file_dispatch"}

\* a dispatch that found a rule
Matched(l) == IsDispatch(l) /\ l.routed # <<>>

----------------------------------------------------------------------------
(* File debounce *)

\* the watch's action was visibly fired: its predicate or the reload hook ran
ActionFired(l) == Has(l, "predicate") \/ DefaultFired(l)

\* C2 as stated: with mtime-check enabled the action fires at most once per
\* on-disk mtime, whatever the types of the earlier events: of two events
\* delivered one after the other for the same watched file, the file on disk
\* and unchanged in between, the second does not fire when the first did.
C2_OncePerMtime ==
    [][(/\ files_mtime_check
        /\ last.op = "file_dispatch" /\ last'.op = "file_dispatch"
        /\ last.routed # <<>> /\ last'.routed = last.routed
        /\ IsFile(EventFilename(last'.event))
        /\ ActionFired(last))
       => ~ActionFired(last')]_vars

\* C2 amended: with mtime-check enabled, (a) an event arriving while the
\* on-disk mtime equals the stored mtime fires nothing and leaves the
\* registry alone; (b) an event that fires with the file on disk stores the
\* on-disk mtime unless its type is deleted; (c) after an event of a type
\* other than deleted has fired, a further event at the unchanged mtime does
\* not fire.
C2_Debounced ==
    [][/\ (/\ files_mtime_check
           /\ last'.op = "file_dispatch" /\ last'.routed # <<>>
           /\ IsFile(EventFilename(last'.event))
           /\ StatMtime(EventFilename(last'.event)) = file_infos[last'.routed].mtime)
          => (~Entered(last') /\ file_infos' = file_infos)
       /\ (/\ files_mtime_check
           /\ last'.op = "file_dispatch" /\ Entered(last')
           /\ IsFile(EventFilename(last'.event))
           /\ last'.event.event_type # "deleted")
          => file_infos'[last'.routed].mtime = StatMtime(EventFilename(last'.event))
       /\ (/\ files_mtime_check
           /\ last.op = "file_dispatch" /\ last'.op = "file_dispatch"
           /\ last.routed # <<>> /\ last'.routed = last.routed
           /\ IsFile(EventFilename(last'.event))
           /\ Entered(last) /\ last.event.event_type # "deleted")
          => ~Entered(last')]_vars

\* C2 witness: the watched file was written (mtime 1 on disk and stored) and
\* an event for it has just been debounced
C2_Witness ==
    /\ files_mtime_check
    /\ last.op = "file_dispatch" /\ last.routed = FileKey(fAF)
    /\ last.event.event_type = "modified"
    /\ disk[fAF] = 1 /\ file_infos[FileKey(fAF)].mtime = 1
    /\ ~Entered(last)

\* C3 as stated: with mtime-check disabled, for an event matched by a file
\* watch without a predicate or whose predicate returned true (a reload action
\* being set), the default action fires exactly when the event type is not
\* deleted.
C3_NeverOnDeleted ==
    (/\ ~files_mtime_check /\ last.op = "file_dispatch" /\ last.routed # <<>>
     /\ reload # None /\ PredReturned(last) \in {"none", "True"})
    => (DefaultFired(last) <=> last.event.event_type # "deleted")

\* C3 amended: with mtime-check disabled every event matched by a file watch
\* (a move is matched by its destination) reaches the predicate stage, and the
\* default action fires exactly when a reload action is set and either the
\* watch has no predicate and the event type is created, modified or moved, or
\* the predicate returned true (whatever the type, deleted included).
C3_DisabledCheck ==
    (~files_mtime_check /\ last.op = "file_dispatch" /\ last.routed # <<>>)
    => /\ Entered(last)
       /\ (file_infos[last.routed].action = None) = (PredReturned(last) = "none")
       /\ DefaultFired(last) <=>
              /\ reload # None
              /\ \/ /\ PredReturned(last) = "none"
                    /\ last.event.event_type \in {"created", "modified", "moved"}
                 \/ PredReturned(last) = "True"

\* C3 witness: mtime-check disabled, no predicate, a deleted event matched and
\* nothing fired, the file's mtime on disk being the stored one
C3_Witness ==
    /\ ~files_mtime_check
    /\ last.op = "file_dispatch" /\ last.routed = FileKey(fAF)
    /\ file_infos[FileKey(fAF)].action = None
    /\ last.event.event_type = "deleted"
    /\ reload # None
    /\ Entered(last) /\ ~DefaultFired(last)

----------------------------------------------------------------------------
(* Predicate results and the default action *)

\* the predicate registered with the rule a dispatch found
RoutedAction(l) ==
    IF l.op = "dir_dispatch" THEN RuleOf(l.routed).action ELSE file_infos[l.routed].action

\* C4 as stated: for every event that reaches the predicate stage (a reload
\* action being set) the default action fires if the watch has no predicate or
\* the predicate returned true, and does not fire if it returned false.
C4_FiresUnlessFalse ==
    (IsDispatch(last) /\ Entered(last) /\ reload # None)
    => /\ PredReturned(last) \in {"none", "True"} => DefaultFired(last)
       /\ PredReturned(last) = "False" => ~DefaultFired(last)

\* C4 amended: for every event that reaches the predicate stage, the default
\* action fires exactly when a reload action is set and either the predicate
\* returned true, or the watch has no predicate and is a directory watch, or
\* the watch has no predicate, is a file watch and the event type is created,
\* modified or moved; a predicate returning false or None never fires it. When
\* it fires and the hook does not fail, the reload callback is called too.
C4_DefaultAction ==
    (IsDispatch(last) /\ Entered(last))
    => /\ (RoutedAction(last) = None) = (PredReturned(last) = "none")
       /\ DefaultFired(last) <=>
              /\ reload # None
              /\ \/ PredReturned(last) = "True"
                 \/ /\ PredReturned(last) = "none"
                    /\ \/ last.op = "dir_dispatch"
                       \/ last.event.event_type \in {"created", "modified", "moved"}
       /\ ReloadCalled(last) <=> (DefaultFired(last) /\ last.raised = "none")

\* C4 witness: a file watch whose predicate returned true on a deleted event,
\* hook and reload callback called
C4_Witness ==
    /\ last.op = "file_dispatch" /\ PredReturned(last) = "True"
    /\ last.event.event_type = "deleted"
    /\ DefaultFired(last) /\ ReloadCalled(last)

----------------------------------------------------------------------------
(* The supervisor *)

Marked(environ) == "nagare.reload" \in DOMAIN environ

\* monitor runs, or ran, as the parent
AsParent == mon.pc # "idle" /\ ~Marked(mon.environ)

NbChildren == Len(mon.children)

ExitedWith(child, code) == child.status = "exited" /\ child.code = <<code>>

\* every child spawned so far exited with code 3
AllAskedRestart == \A i \in 1..NbChildren : ExitedWith(mon.children[i], 3)

\* C6: in parent mode, while every child exits with code 3 the supervisor does
\* not return; the k-th child is given the restart counter k in its
\* environment; and, spawning staying possible (below MaxSpawn children), the
\* loop goes on from a child's exit with code 3 to the next Popen.
C6_RespawnsWhileRestartAsked ==
    /\ []((AsParent /\ AllAskedRestart) => mon.pc \in {"loop", "waiting", "raised"})
    /\ [](\A i \in 1..NbChildren : mon.children[i].environ["nagare.reload"] = Str(i))
    /\ [](AsParent /\ mon.pc = "waiting" => mon.nb_reload = NbChildren)
    /\ ((AsParent /\ mon.pc = "loop" /\ AllAskedRestart /\ mon.nb_reload < MaxSpawn)
        ~> (mon.pc \in {"waiting", "raised"}))

\* C6 witness: two children exited with 3, the third runs with counter 3
C6_Witness ==
    /\ AsParent /\ mon.pc = "waiting" /\ NbChildren = 3
    /\ ExitedWith(mon.children[1], 3) /\ ExitedWith(mon.children[2], 3)
    /\ mon.children[3].status = "running"
    /\ mon.children[3].environ["nagare.reload"] = Str(3)

\* C7: in parent mode, once a child has exited with a code other than 3 the
\* only step of the supervisor is to return that code, with no further child;
\* and a supervisor that returned after a child's exit returned that child's
\* code, which is not 3, all earlier children having exited with 3.
C7_TerminalCodeReturned ==
    /\ [][(/\ mon.pc = "loop" /\ NbChildren > 0
           /\ mon.children[NbChildren].status = "exited"
           /\ mon.children[NbChildren].code # <<3>>)
          => /\ mon'.pc = "returned"
             /\ mon'.children = mon.children
             /\ <<mon'.ret[2]>> = mon.children[NbChildren].code]_vars
    /\ []((/\ AsParent /\ mon.pc = "returned"
           /\ mon.children[NbChildren].status = "exited")
          => /\ mon.ret = Returned(mon.children[NbChildren].code[1])
             /\ mon.ret # Returned(3)
             /\ \A i \in 1..(NbChildren - 1) : ExitedWith(mon.children[i], 3))

\* C7 witness: the second child exited with 0 and the supervisor returned 0
C7_Witness ==
    /\ AsParent /\ mon.pc = "returned" /\ NbChildren = 2
    /\ ExitedWith(mon.children[2], 0)
    /\ mon.ret = Returned(0)

\* C8: an interrupt while waiting sets the exit code 1 and terminates the
\* running child; after it no child is spawned and the supervisor returns 1;
\* whenever monitor is left, by return or by exception, no child is running.
C8_InterruptTerminates ==
    /\ [][(mon.pc = "waiting" /\ last'.op = "interrupt")
          => /\ mon'.exit_code = 1
             /\ mon'.children[mon.proc].status = "terminated"
             /\ Len(mon'.children) = NbChildren]_vars
    /\ [][(NbChildren > 0 /\ mon.children[NbChildren].status = "terminated")
          => (mon'.children = mon.children /\ mon'.pc = "returned"
              /\ mon'.ret = Returned(1))]_vars
    /\ [](mon.pc \in {"returned", "raised"}
          => \A i \in 1..NbChildren : mon.children[i].status # "running")
    /\ [](\A i \in 1..(NbChildren - 1) : mon.children[i].status # "running")

\* C8 witness: the second child was terminated on an interrupt and the
\* supervisor returned 1
C8_Witness ==
    /\ AsParent /\ mon.pc = "returned" /\ NbChildren = 2
    /\ mon.children[2].status = "terminated"
    /\ mon.ret = Returned(1)

\* C9: with the marker in the environment monitor runs start with the reload
\* action it was given and returns 0: both observers are started, every
\* deferred registration of an existing directory or file is in its registry
\* and nothing else is, the deferred lists are empty, the run version is drawn
\* from the range; no child is spawned and the loop is never entered.
C9_ChildStartsAndReturns ==
    /\ []((mon.pc # "idle" /\ Marked(mon.environ))
          => /\ mon.pc = "returned" /\ mon.ret = Returned(0)
             /\ mon.children = <<>> /\ mon.nb_reload = 0 /\ mon.proc = NoProc
             /\ <<reload>> = mon.reload_action
             /\ dirs_observer = "started" /\ files_observer = "started"
             /\ watched_dirs = <<>> /\ watched_files = <<>>
             /\ version \in VersionMin..VersionMax)
    /\ [][(mon.pc = "idle" /\ mon'.pc = "returned")
          => /\ Roots(actions') =
                    {AbsPath(watched_dirs[i].dirname) : i \in 1..Len(watched_dirs)}
                    \cap ExistingDirs
             /\ DOMAIN file_infos' =
                    {FileKey(AbsPath(watched_files[i].filename)) :
                        i \in {j \in 1..Len(watched_files) :
                                 IsFile(AbsPath(watched_files[j].filename))}}]_vars

\* C9 witness: the child returned 0 with a directory and a file armed
C9_Witness ==
    /\ Marked(mon.environ) /\ mon.pc = "returned" /\ mon.ret = Returned(0)
    /\ Roots(actions) = {pA} /\ DOMAIN file_infos = {FileKey(fAF)}
    /\ version = VersionMax /\ reload = "action"

----------------------------------------------------------------------------
(* The hello handshake *)

IsHello(message) ==
    /\ message.text = "json" /\ message.type = "dict"
    /\ DOMAIN message.value = {"command", "extver"}
    /\ message.value.command = "hello"

\* the connection and the message of a receive
Sender(l) == l.calls[1][2]
MessageOf(l) == l.calls[1][3]

\* the messages a handler delivered to a connection, in order
DeliveredTo(l, w) ==
    LET sent == SelectSeq(l.calls, LAMBDA c : c[1] = "send" /\ c[2] = w)
    IN  [i \in 1..Len(sent) |-> sent[i][3]]

\* C10 as stated: for every hello received, the sender is delivered the hello
\* response, followed by a reload command with empty path if and only if the
\* extver of the message differs from the run version.
C10_HelloAnswered ==
    (last.op = "receive" /\ IsHello(MessageOf(last)))
    => DeliveredTo(last, Sender(last)) =
           IF MessageOf(last).value.extver # Num(version)
           THEN <<HelloResponse, ReloadCommand(<<>>)>>
           ELSE <<HelloResponse>>

----------------------------------------------------------------------------
(* Broadcast *)

\* the handler ran a broadcast
Broadcasts(l) == Has(l, "broadcast_livereload")

\* the command of the broadcast a handler ran
BroadcastOf(l) ==
    l.calls[CHOOSE i \in 1..Len(l.calls) : l.calls[i][1] = "broadcast_livereload"][2]

\* the connections that connected, have not closed and can be written to
OpenConns == {w \in Conns : conn[w] = "open"}

\* C11 as stated: a reload or alert broadcast is delivered to exactly the
\* connections open at that moment: every connection that connected and has
\* not closed receives it, a connection that closed, or never connected, does
\* not.
C11_DeliveredToOpen ==
    (last.op \in {"alert", "reload_asset"})
    => /\ OpenConns \subseteq Received(last, BroadcastOf(last))
       /\ \A w \in Received(last, BroadcastOf(last)) : conn[w] \notin {"new", "closed"}

\* C12 as stated: a failed send does not abort the broadcast: the failure
\* does not leave the hub, every other open connection receives the message
\* and the set is left as it was.
C12_SendFailureIsolated ==
    [][Broadcasts(last')
       => /\ last'.raised # "SendError"
          /\ (websockets \cap OpenConns) \subseteq Received(last', BroadcastOf(last'))
          /\ websockets' = websockets]_vars

----------------------------------------------------------------------------
(* Close *)

\* C13 as stated: close removes the connection from the set and releases its
\* handlers, and closing a connection already closed, or never in the set,
\* raises no error and leaves the set unchanged.
C13_CloseIdempotent ==
    [][last'.op = "close"
       => LET w == last'.calls[1][2]
          IN  /\ last'.raised = "none"
              /\ websockets' = websockets \ {w}
              /\ conn'[w] \notin {"open", "dead"}]_vars

----------------------------------------------------------------------------
(* Broadcast beside connect and close *)

\* C14 as stated: whatever connects or closes while a broadcast iterates the
\* set, the iteration raises no error and, once complete, has sent to the set
\* as it was at one moment of the broadcast.
C14_IterationNotCorrupted ==
    /\ iter.raised # "RuntimeError"
    /\ iter.pc = "done" => {iter.sent[i] : i \in 1..Len(iter.sent)} \in iter.views

----------------------------------------------------------------------------
(* Messages other than a well-formed hello *)

\* C15 as stated: an info command, an unrecognized command or a malformed
\* message (not JSON, no command field, a hello without extver) is ignored: no
\* error is raised, the connection stays in the set and no reload or alert is
\* sent.
C15_IgnoredQuietly ==
    (last.op = "receive" /\ ~IsHello(MessageOf(last)))
    => /\ last.raised = "none"
       /\ Sender(last) \in websockets
       /\ \A i \in 1..Len(SendsOf(last)) :
              SendsOf(last)[i][3].command \notin {"reload", "alert"}

----------------------------------------------------------------------------
(* Registration of a path that does not exist *)

\* a registration passed to the started observer for a path that is not an
\* existing directory (watch_dir) or an existing file (watch_file)
FailedRegistration(l) ==
    /\ l.op \in {"watch_dir", "watch_file"} /\ Has(l, "schedule")
    /\ IF l.op = "watch_dir" THEN ~IsDir(AbsPath(l.calls[1][2]))
       ELSE ~IsFile(AbsPath(l.calls[1][2]))

\* C16 as stated: registering a path that does not exist returns false to the
\* caller, which logs a warning; no rule is added to the registry.
C16_FailsWithWarning ==
    FailedRegistration(last)
    => /\ last.ret = "False"
       /\ Has(last, "warning")
       /\ AbsPath(last.calls[1][2]) \notin Roots(actions)
       /\ FileKey(AbsPath(last.calls[1][2])) \notin DOMAIN file_infos

----------------------------------------------------------------------------
(* The host reload hook and the reload callback *)

\* the positions of the calls of a function in a handler's calls
CallsOf(l, fn) == {i \in 1..Len(l.calls) : l.calls[i][1] = fn}

\* C17: in every dispatch the host reload hook is called at most once and the
\* reload callback at most once; the reload callback is called only right
\* after the hook, when the hook did not fail, and ends the dispatch; when the
\* hook fails its failure leaves the dispatch, the hook being the last call
\* made: the reload callback is not called and nothing is retried.
C17_HookThenReload ==
    IsDispatch(last)
    => /\ Cardinality(CallsOf(last, "handle_reload")) <= 1
       /\ Cardinality(CallsOf(last, "reload")) <= 1
       /\ \A i \in CallsOf(last, "reload") :
              /\ i > 1 /\ last.calls[i - 1][1] = "handle_reload"
              /\ i = Len(last.calls) /\ last.raised = "none"
       /\ \A i \in CallsOf(last, "handle_reload") :
              IF last.raised = "HookError"
              THEN i = Len(last.calls) /\ CallsOf(last, "reload") = {}
              ELSE /\ last.raised = "none"
                   /\ CallsOf(last, "reload") = {i + 1}
       /\ last.raised = "HookError" => CallsOf(last, "handle_reload") # {}

\* C17 witness: a dispatch whose hook failed: the hook was called, the reload
\* callback was not, the failure left the dispatch
C17_Witness ==
    /\ IsDispatch(last) /\ last.raised = "HookError"
    /\ DefaultFired(last) /\ ~ReloadCalled(last)

----------------------------------------------------------------------------
(* One event, two registries *)

\* C18 as stated: for one filesystem event, the directory registry and the
\* file registry taken together, the default action fires at most once for
\* the path: the reload callback is not called twice with the same path.
C18_FiresAtMostOnce ==
    last.op = "fs_event"
    => \A i, j \in CallsOf(last, "reload") : last.calls[i][2] = last.calls[j][2] => i = j

----------------------------------------------------------------------------
(* The snippet in HTML responses *)

\* the request of a handle_request and the response passed downstream
RequestOf(l) ==
    [has_start_response |-> l.calls[1][2], is_xhr |-> l.calls[1][3],
     headers |-> l.calls[1][5], body |-> l.calls[1][6]]
Responded(l) == Has(l, "start_response")
ResponseOf(l) ==
    LET c == l.calls[CHOOSE i \in 1..Len(l.calls) : l.calls[i][1] = "start_response"]
    IN  [headers |-> c[3], body |-> c[4]]

IsHtml(headers) ==
    /\ MultiDictGet(headers, "Content-Type") # <<>>
    /\ StartsWith(MultiDictGet(headers, "Content-Type"), TextHtml)

\* where the snippet goes: at the first closing head tag, else at the first
\* closing body tag, 0 when the body holds neither
InsertionPoint(body) ==
    IF Find(body, HeadTag) # 0 THEN Find(body, HeadTag) ELSE Find(body, BodyTag)

\* body2 is body with a non-empty snippet put in just before position i
InsertedAt(body, body2, i) ==
    /\ Len(body2) > Len(body)
    /\ SubSeq(body2, 1, i - 1) = SubSeq(body, 1, i - 1)
    /\ SubSeq(body2, i + Len(body2) - Len(body), Len(body2)) = SubSeq(body, i, Len(body))

\* C19 as stated: in live mode, an HTML response to a request that is not XHR
\* is passed downstream with the snippet inserted once, just before the first
\* closing head tag, or before the closing body tag when there is no closing
\* head tag, and with Content-Length the length of the new body; a response
\* that is not HTML, or to an XHR request, is passed with headers and body
\* unmodified.
C19_SnippetInserted ==
    (last.op = "handle_request" /\ RequestOf(last).has_start_response /\ http.live)
    => LET q == RequestOf(last)
       IN  /\ last.raised = "none" /\ Responded(last)
           /\ IF IsHtml(q.headers) /\ ~q.is_xhr
              THEN /\ InsertionPoint(q.body) # 0
                      => InsertedAt(q.body, ResponseOf(last).body, InsertionPoint(q.body))
                   /\ MultiDictGet(ResponseOf(last).headers, "Content-Length")
                          = Digits(Len(ResponseOf(last).body))
              ELSE ResponseOf(last) = [headers |-> q.headers, body |-> q.body]

----------------------------------------------------------------------------
(* The directory rule list *)

RulesOf(acts) == {acts[i] : i \in 1..Len(acts)}

\* C20: the directory rule list is always sorted by descending length of the
\* root, no root appears twice, and no step removes or replaces a rule: every
\* rule of the list is in the list after the step, which is no shorter.
C20_SortedAndGrowing ==
    /\ [](\A i, j \in 1..Len(actions) :
              i < j => /\ Len(actions[i].dirname) >= Len(actions[j].dirname)
                       /\ actions[i].dirname # actions[j].dirname)
    /\ [][RulesOf(actions) \subseteq RulesOf(actions') /\ Len(actions') >= Len(actions)]_vars

\* C20 witness: the deepest of three nested roots was registered last, after
\* start, and stands first in the list
C20_Witness ==
    /\ last.op = "watch_dir" /\ Has(last, "schedule")
    /\ last.calls[1][2] = pABC /\ last.calls[1][3] = "True"
    /\ Len(actions) = 3 /\ actions[1].dirname = pABC
    /\ actions[2].dirname = pAB /\ actions[3].dirname = pA

----------------------------------------------------------------------------
(* Deletion and the stored mtime *)

\* C21: with mtime-check enabled, a deleted event for a watched file that can
\* no longer be stat'ed passes the debounce and leaves the registry, its
\* stored mtime included, as it was, each time it is delivered; an event of
\* another type that passes the debounce stores the mtime the dispatch read:
\* the one on disk or, the file being gone, the stored one plus one.
C21_DeletionPasses ==
    [][(/\ files_mtime_check
        /\ last'.op = "file_dispatch" /\ last'.routed # <<>>)
       => LET filename == EventFilename(last'.event)
              k        == last'.routed
          IN  /\ (last'.event.event_type = "deleted" /\ ~IsFile(filename))
                 => (Entered(last') /\ file_infos' = file_infos)
              /\ (last'.event.event_type # "deleted" /\ Entered(last'))
                 => /\ file_infos'[k].mtime =
                           IF IsFile(filename) THEN StatMtime(filename)
                           ELSE file_infos[k].mtime + 1
                    /\ \A x \in DOMAIN file_infos \ {k} : file_infos'[x] = file_infos[x]]_vars

\* C21 witness: mtime-check enabled, the watched file was seen at mtime 1 and
\* then removed, and a deleted event for it has just passed the debounce, the
\* stored mtime still 1
C21_Witness ==
    /\ files_mtime_check
    /\ last.op = "file_dispatch" /\ last.routed = FileKey(fAF)
    /\ last.event.event_type = "deleted"
    /\ disk[fAF] = Absent
    /\ file_infos[FileKey(fAF)].mtime = 1
    /\ Entered(last)

----------------------------------------------------------------------------
(* Watches without a predicate and the event type *)

\* C22: for a watch registered with no predicate, file watch or directory
\* watch alike, the default action fires only on events of type created,
\* modified or moved, and never on an event of type deleted.
C22_NoPredicateNeverOnDeleted ==
    (IsDispatch(last) /\ Entered(last) /\ PredReturned(last) = "none" /\ DefaultFired(last))
    => /\ last.event.event_type \in {"created", "modified", "moved"}
       /\ last.event.event_type # "deleted"

----------------------------------------------------------------------------
(* A hello of another version reloads every client *)

\* C23: a hello whose extver differs from the run version, received from one
\* client, has the whole-document reload command sent to every client in the
\* connection set at that moment, the clients that sent nothing included.
C23_HelloReloadsAll ==
    (/\ last.op = "receive" /\ IsHello(MessageOf(last))
     /\ MessageOf(last).value.extver # Num(version))
    => websockets \subseteq Received(last, ReloadCommand(<<>>))

----------------------------------------------------------------------------
(* Registering again *)

\* the path, the result and the arguments of the schedule call a registration
\* made on the started observer
ScheduledPath(l) == AbsPath(l.calls[1][2])
ScheduleReturned(l) == l.calls[1][3]
Registered(l) == l.calls[1][4]

\* the registration of a root made first among deferred ones
FirstOf(pending, root) ==
    pending[CHOOSE i \in 1..Len(pending) :
                /\ AbsPath(pending[i].dirname) = root
                /\ \A j \in 1..(i - 1) : AbsPath(pending[j].dirname) # root]

\* C24: scheduling a directory root that is already registered returns true
\* and leaves the rule list as it was, the rule of the first registration
\* kept; of registrations deferred until start the first of each root makes
\* the rule; the list never holds two rules with the same root.  Scheduling a
\* file that is already watched, the file being on disk, returns true and
\* replaces its predicate and options by the new ones and its stored mtime by
\* the mtime now on disk, the other files' entries left alone.
C24_ReRegistration ==
    [][/\ (/\ last'.op = "watch_dir" /\ Has(last', "schedule")
           /\ ScheduledPath(last') \in Roots(actions))
          => (ScheduleReturned(last') = "True" /\ actions' = actions)
       /\ last'.op = "start"
          => \A r \in RulesOf(actions') :
                 LET w == FirstOf(watched_dirs, r.dirname)
                 IN  r = DirRule(r.dirname, w.recursive, w.action, w.kw)
       /\ \A i, j \in 1..Len(actions') :
              actions'[i].dirname = actions'[j].dirname => i = j
       /\ (/\ last'.op = "watch_file" /\ Has(last', "schedule")
           /\ FileKey(ScheduledPath(last')) \in DOMAIN file_infos
           /\ IsFile(ScheduledPath(last')))
          => /\ ScheduleReturned(last') = "True"
             /\ file_infos'[FileKey(ScheduledPath(last'))] =
                    FileInfos(StatMtime(ScheduledPath(last')),
                              Registered(last').action, Registered(last').kw)
             /\ \A k \in DOMAIN file_infos \ {FileKey(ScheduledPath(last'))} :
                    file_infos'[k] = file_infos[k]
             /\ DOMAIN file_infos' = DOMAIN file_infos]_vars

\* C24 witness: the root /a/b, registered first without predicate, has just
\* been registered again as /a/b/ with a predicate and its rule is still the
\* first one; the file /a/f, written since the start, is watched with a
\* predicate at the mtime now on disk
C24_Witness ==
    /\ last.op = "watch_dir" /\ Has(last, "schedule")
    /\ Registered(last).action = "p1" /\ ScheduleReturned(last) = "True"
    /\ ScheduledPath(last) = pAB /\ last.calls[1][2] = pABs
    /\ Len(actions) = 1 /\ actions[1].dirname = pAB /\ actions[1].action = None
    /\ FileKey(fAF) \in DOMAIN file_infos
    /\ file_infos[FileKey(fAF)] = FileInfos(1, "p1", "k2")
    /\ disk[fAF] = 1

====
